---- MODULE Spec2Model ----
(***************************************************************************)
(* The us-state-data notebook as a state machine.  The kernel's globals    *)
(* (census_df, virus_df, firstcase, data) are the state; one action per    *)
(* pipeline cell, executed in document order and stopped by the first      *)
(* cell that raises.                                                       *)
(*                                                                         *)
(* Representation.                                                         *)
(*   nullable value : <<>> is NULL / None / NaT, <<v>> is the value v      *)
(*   float          : [n, d] with d >= 0 in lowest terms; d = 0 gives the  *)
(*                    IEEE specials  1/0 = inf, -1/0 = -inf, 0/0 = NaN     *)
(*                    (NaN is what pandas calls null in a float column)    *)
(*   datetime       : day ordinal, 2020-01-01 = 0                          *)
(*   sqlite text of a datetime : the integer YYYYMMDD (same order as the   *)
(*                    text 'YYYY-MM-DD ...')                               *)
(***************************************************************************)
EXTENDS Integers, Sequences, FiniteSets, Bags, TLC

VARIABLES
    kaggle_csv,   \* rows of raw/us_states_covid19_daily.csv, in file order
    census_api,   \* rows the census API answers for state:*
    census_df,    \* kernel global (Undefined until assigned)
    virus_df,     \* kernel global
    firstcase,    \* kernel global
    data,         \* kernel global
    pc,           \* the cell to execute next
    loaders,      \* the order in which the two loader cells are executed
    run,          \* number of the current run of the notebook
    error,        \* the exception raised in the current run, or NoError
    completed,    \* run -> the cells that ran to their end in that run
    raised,       \* run -> the cells that raised in that run
    results_csv   \* run -> what data.to_csv wrote in that run, or NotWritten

vars == <<kaggle_csv, census_api, census_df, virus_df, firstcase, data,
          pc, loaders, run, error, completed, raised, results_csv>>

----------------------------------------------------------------------------
(* Bounds of the model *)

\* rows of the csv file
MaxRows == 2

----------------------------------------------------------------------------
(* Nullable values *)

Null == <<>>

Some(v) == <<v>>

IsNull(x) == x = <<>>

Val(x) == x[1]

\* a kernel global that no cell has assigned yet (its use raises NameError,
\* or "no such table" inside sqldf)
Undefined == [defined |-> FALSE, rows |-> <<>>]

UndefinedTable == [defined |-> FALSE, rows |-> {}]

Frame(rows) == [defined |-> TRUE, rows |-> rows]

NoError == "none"

NotWritten == [written |-> FALSE, rows |-> <<>>]

----------------------------------------------------------------------------
(* Floating point values as extended rationals *)

Abs(i) == IF i < 0 THEN -i ELSE i

Sign(i) == IF i < 0 THEN -1 ELSE IF i > 0 THEN 1 ELSE 0

RECURSIVE Gcd(_, _)
Gcd(a, b) == IF b = 0 THEN a ELSE Gcd(b, a % b)

Norm(n, d) ==
    IF d = 0 THEN [n |-> Sign(n), d |-> 0]
    ELSE LET s == IF d < 0 THEN -1 ELSE 1
             g == Gcd(Abs(n), Abs(d))
         IN  [n |-> (s * n) \div g, d |-> (s * d) \div g]

IntF(i) == [n |-> i, d |-> 1]

NaN == [n |-> 0, d |-> 0]

Inf == [n |-> 1, d |-> 0]

NegInf == [n |-> -1, d |-> 0]

IsNaN(x) == x.d = 0 /\ x.n = 0

IsFinite(x) == x.d > 0

\* x * y ; inf * 0 = NaN
FMul(x, y) == Norm(x.n * y.n, x.d * y.d)

\* x / y ; finite / 0 = +-inf, 0 / 0 = NaN (numpy true division)
FDiv(x, y) ==
    IF x.d = 0 /\ y.d = 0 THEN NaN
    ELSE LET s == IF y.n < 0 THEN -1 ELSE 1
         IN  Norm(s * x.n * y.d, s * x.d * y.n)

\* x + y
FAdd(x, y) ==
    IF IsNaN(x) \/ IsNaN(y) THEN NaN
    ELSE IF x.d = 0 /\ y.d = 0 THEN (IF x.n = y.n THEN x ELSE NaN)
    ELSE IF x.d = 0 THEN x
    ELSE IF y.d = 0 THEN y
    ELSE Norm(x.n * y.d + y.n * x.d, x.d * y.d)

FLess(x, y) == x.n * y.d < y.n * x.d

----------------------------------------------------------------------------
(* Dates: pd.to_datetime(..., format='%Y%m%d') and sqlite's strftime *)

IsLeap(y) == (y % 4 = 0 /\ y % 100 # 0) \/ y % 400 = 0

DaysInMonth(y, m) ==
    IF m = 2 THEN (IF IsLeap(y) THEN 29 ELSE 28)
    ELSE IF m \in {4, 6, 9, 11} THEN 30 ELSE 31

DaysInYear(y) == IF IsLeap(y) THEN 366 ELSE 365

RECURSIVE DaysBeforeYear(_)
DaysBeforeYear(y) == IF y <= 2020 THEN 0 ELSE DaysInYear(y - 1) + DaysBeforeYear(y - 1)

RECURSIVE DaysBeforeMonth(_, _)
DaysBeforeMonth(y, m) ==
    IF m <= 1 THEN 0 ELSE DaysInMonth(y, m - 1) + DaysBeforeMonth(y, m - 1)

\* pd.to_datetime of the digits YYYYMMDD: the day ordinal
ToDatetime(v) ==
    LET y == v \div 10000
        m == (v \div 100) % 100
        dd == v % 100
    IN  DaysBeforeYear(y) + DaysBeforeMonth(y, m) + (dd - 1)

RECURSIVE YearOfOrdinal(_, _)
YearOfOrdinal(o, y) ==
    IF o < DaysInYear(y) THEN <<y, o>> ELSE YearOfOrdinal(o - DaysInYear(y), y + 1)

RECURSIVE MonthOfOrdinal(_, _, _)
MonthOfOrdinal(o, y, m) ==
    IF o < DaysInMonth(y, m) THEN <<m, o>>
    ELSE MonthOfOrdinal(o - DaysInMonth(y, m), y, m + 1)

\* the text sqlite holds for a datetime, and what strftime('%Y-%m-%d', .)
\* makes of it: the digits YYYYMMDD of the day ordinal o
Strftime(o) ==
    LET yo == YearOfOrdinal(o, 2020)
        mo == MonthOfOrdinal(yo[2], yo[1], 1)
    IN  yo[1] * 10000 + mo[1] * 100 + (mo[2] + 1)

\* timedelta .astype('timedelta64[D]'): whole days between two datetimes
DaysBetween(later, earlier) == later - earlier

----------------------------------------------------------------------------
(* The two external datasets *)

\* state postal codes found in the case data ("ZZ" is no state)
CaseStates == {"WY", "ZZ"}

\* values of the csv's date column
CsvDates == {20200229, 20200301, 20200306}

\* the six counts of a csv row; an empty csv field is Null
CountProfiles ==
    { [positive |-> Null, negative |-> Null, pending |-> Null,
       hospitalized |-> Null, death |-> Some(1), total |-> Null],
      [positive |-> Some(0), negative |-> Some(5), pending |-> Some(4),
       hospitalized |-> Null, death |-> Some(0), total |-> Some(9)],
      [positive |-> Some(10), negative |-> Some(90), pending |-> Null,
       hospitalized |-> Some(2), death |-> Null, total |-> Some(100)] }

CsvRows ==
    { [state |-> s, date |-> d] @@ c :
        s \in CaseStates, d \in CsvDates, c \in CountProfiles }

\* the csv rows in a fixed order, and the place of a row in it
RowOrder == LET RECURSIVE Enum(_)
                Enum(S) == IF S = {} THEN <<>>
                           ELSE LET x == CHOOSE x \in S : TRUE
                                IN  <<x>> \o Enum(S \ {x})
            IN  Enum(CsvRows)

Rank(r) == CHOOSE i \in 1..Len(RowOrder) : RowOrder[i] = r

RECURSIVE SeqsUpTo(_, _)
SeqsUpTo(S, n) ==
    IF n = 0 THEN {<<>>}
    ELSE LET shorter == SeqsUpTo(S, n - 1)
         IN  shorter \cup {Append(q, x) : q \in {t \in shorter : Len(t) = n - 1}, x \in S}

\* the csv files of the model: one order of rows for each multiset of at most
\* MaxRows rows (a rerun reads the rows in any other order)
CsvFiles ==
    { q \in SeqsUpTo(CsvRows, MaxRows) :
        \A i \in 1..(Len(q) - 1) : Rank(q[i]) <= Rank(q[i + 1]) }

\* rows of the census answer: the geography code and B01003_001E
CensusAnswers ==
    { [state |-> 56, B01003_001E |-> 500000],
      [state |-> 56, B01003_001E |-> 0],
      [state |-> 99, B01003_001E |-> 500000] }

\* the API answers one row per geography
CensusTables ==
    { T \in SUBSET CensusAnswers :
        \A a, b \in T : a.state = b.state => a = b }

\* the reference table of the us package
UsStates ==
    { [fips |-> 1, abbr |-> "AL", name |-> "Alabama"],
      [fips |-> 56, abbr |-> "WY", name |-> "Wyoming"] }

\* us.states.lookup(fips): the state, or None
Lookup(fips) ==
    IF \E st \in UsStates : st.fips = fips
    THEN Some(CHOOSE st \in UsStates : st.fips = fips)
    ELSE Null

----------------------------------------------------------------------------
(* The loaders *)

\* get_virus_data: the csv's rows with the column obs_dt added
get_virus_data(csv) ==
    [i \in 1..Len(csv) |-> [obs_dt |-> ToDatetime(csv[i].date)] @@ csv[i]]

\* us.states.lookup(fips).abbr raises AttributeError when lookup gives None
LookupRaises(api) == \E a \in api : IsNull(Lookup(a.state))

\* get_census_data: the answer's rows renamed, with state_cd and state_name
get_census_data(api) ==
    { [state |-> a.state,
       population_total |-> a.B01003_001E,
       state_cd |-> Val(Lookup(a.state)).abbr,
       state_name |-> Val(Lookup(a.state)).name] : a \in api }

----------------------------------------------------------------------------
(* The queries *)

MinOf(S) == CHOOSE x \in S : \A y \in S : x <= y

RECURSIVE SetToSeq(_)
SetToSeq(S) ==
    IF S = {} THEN <<>>
    ELSE LET x == CHOOSE x \in S : TRUE IN <<x>> \o SetToSeq(S \ {x})

RECURSIVE Flatten(_)
Flatten(qq) == IF qq = <<>> THEN <<>> ELSE Head(qq) \o Flatten(Tail(qq))

\* (a slip: where positive > 0)
WherePositiveAboveZero(s) == ~IsNull(s.positive) /\ Val(s.positive) > 0

\* where positive is not null
WherePositive(s) == ~IsNull(s.positive)

\* (a slip: obs_dt without min(), which is the obs_dt of some row of the group,
\* here the first in frame order)
FirstCaseQueryBareColumn(v) ==
    LET kept == {i \in 1..Len(v) : ~IsNull(v[i].positive)}
        groups == {v[i].state : i \in kept}
    IN  { [state |-> g,
           obs_dt |-> Strftime(v[MinOf({k \in kept : v[k].state = g})].obs_dt)]
          : g \in groups }

\* select state, min(obs_dt) as obs_dt from virus_df
\*   where positive is not null group by 1
\* (sqldf hands obs_dt to sqlite as text and gets text back)
FirstCaseQuery(v) ==
    LET kept == {i \in 1..Len(v) : WherePositive(v[i])}
        groups == {v[i].state : i \in kept}
    IN  { [state |-> g,
           obs_dt |-> MinOf({Strftime(v[i].obs_dt) : i \in {k \in kept : v[k].state = g}})]
          : g \in groups }

\* (a slip: the column selected without coalesce)
CoalesceMissing(x, dflt) == x

\* coalesce(x, 0)
Coalesce(x, dflt) == IF IsNull(x) THEN Some(dflt) ELSE x

\* the select list, for a row s of virus_df, its row c of census_df and its
\* row f of firstcase (Null when the left join found none).  The census
\* columns other than the population are carried through unchanged and are
\* left out here.
SelectRow(s, c, f) ==
    [state_name |-> c.state_name,
     state |-> s.state,
     obs_dt |-> Strftime(s.obs_dt),
     first_obs_dt |-> IF IsNull(f) THEN Null
                      ELSE Some(Strftime(ToDatetime(Val(f).obs_dt))),
     positive |-> Coalesce(s.positive, 0),
     negative |-> Coalesce(s.negative, 0),
     pending |-> Coalesce(s.pending, 0),
     hospitalized |-> Coalesce(s.hospitalized, 0),
     death |-> Coalesce(s.death, 0),
     total |-> Coalesce(s.total, 0),
     population |-> c.population_total,
     population_total |-> c.population_total]

\* (a slip: the join without its on clause)
InnerJoinNoCondition(s, cdf) == cdf

\* from virus_df as s inner join census_df as c on s.state = c.state_cd
InnerJoin(s, cdf) == {c \in cdf : s.state = c.state_cd}

\* left join firstcase as f on s.state = f.state
LeftJoin(s, fc) ==
    LET fs == {f \in fc : s.state = f.state}
    IN  IF fs = {} THEN {Null} ELSE {Some(f) : f \in fs}

JoinQuery(v, cdf, fc) ==
    Flatten([i \in 1..Len(v) |->
        SetToSeq({ SelectRow(v[i], c, f) :
                     c \in InnerJoin(v[i], cdf), f \in LeftJoin(v[i], fc) })])

----------------------------------------------------------------------------
(* The derived columns *)

\* data[col] = ...: the row with the columns of cols set
SetColumns(row, cols) == cols @@ row

HasColumn(rows, col) == rows = <<>> \/ col \in DOMAIN rows[1]

\* pd.to_datetime of the text columns; None becomes NaT
ParseDates(row) ==
    SetColumns(row,
        [obs_dt |-> ToDatetime(row.obs_dt),
         first_obs_dt |-> IF IsNull(row.first_obs_dt) THEN Null
                          ELSE Some(ToDatetime(Val(row.first_obs_dt)))])

\* data['obs_dt'] - data['first_obs_dt']; NaT when first_obs_dt is NaT
TimeElapsed(row) ==
    IF IsNull(row.first_obs_dt) THEN Null
    ELSE Some(DaysBetween(row.obs_dt, Val(row.first_obs_dt)))

\* .astype('timedelta64[D]') gives NaN for NaT, and .astype(int) of a column
\* holding NaN raises ValueError
AstypeIntRaises(rows) ==
    \E i \in 1..Len(rows) : IsNull(rows[i].time_elapsed_since_firstpos)

\* a count column as float operand: None is NaN
ToFloat(x) == IF IsNull(x) THEN NaN ELSE IntF(Val(x))

\* 100000.0 * (count / population)
Per100k(count, population) ==
    FMul(IntF(100000), FDiv(ToFloat(count), IntF(population)))

\* days / (1.0 + days)
AdjMultiplier(days) == FDiv(IntF(days), FAdd(IntF(1), IntF(days)))

ElapsedAndRates(row) ==
    SetColumns(row,
        [days_elapsed_since_firstpos |-> Val(row.time_elapsed_since_firstpos),
         pos_per100k |-> Per100k(row.positive, row.population),
         death_per100k |-> Per100k(row.death, row.population)])

Adjusted(row) ==
    LET m == AdjMultiplier(row.days_elapsed_since_firstpos)
    IN  SetColumns(row,
            [adj_multiplier |-> m,
             adj_pos_per100k |-> FMul(row.pos_per100k, m),
             adj_death_per100k |-> FMul(row.death_per100k, m)])

\* the three cells that assign columns of data, row by row
ParseDatesAll(rows) == [i \in 1..Len(rows) |-> ParseDates(rows[i])]

TimeElapsedAll(rows) ==
    [i \in 1..Len(rows) |->
        SetColumns(rows[i], [time_elapsed_since_firstpos |-> TimeElapsed(rows[i])])]

ElapsedAndRatesAll(rows) == [i \in 1..Len(rows) |-> ElapsedAndRates(rows[i])]

AdjustedAll(rows) == [i \in 1..Len(rows) |-> Adjusted(rows[i])]

----------------------------------------------------------------------------
(* Running the notebook *)

\* the notebook is run, and run once more
Runs == {1, 2}

\* the two loader cells do not depend on each other
LoaderOrders == {<<"census", "virus">>, <<"virus", "census">>}

Cells == loaders \o <<"firstcase", "join", "to_datetime", "elapsed", "adjust", "to_csv">>

\* (a slip: the cells after a failed one are executed all the same)
StopsNever(err) == FALSE

\* the first cell that raises stops the run: the cells after it do not execute
Stops(err) == err # NoError

Running == pc <= Len(Cells) /\ ~Stops(error)

Finished == ~Running

At(cell) == Running /\ Cells[pc] = cell

\* the end of a cell: it ran to its end (exc = NoError) or raised exc
EndCell(cell, exc) ==
    /\ pc' = pc + 1
    /\ error' = IF exc # NoError THEN exc ELSE error
    /\ completed' = IF exc = NoError
                    THEN [completed EXCEPT ![run] = @ \cup {cell}] ELSE completed
    /\ raised' = IF exc # NoError
                 THEN [raised EXCEPT ![run] = @ \cup {cell}] ELSE raised
    /\ UNCHANGED <<run, loaders, kaggle_csv, census_api>>

Init ==
    /\ kaggle_csv \in CsvFiles
    /\ census_api \in CensusTables
    /\ census_df = UndefinedTable
    /\ virus_df = Undefined
    /\ firstcase = UndefinedTable
    /\ data = Undefined
    /\ pc = 1
    /\ loaders = <<"census", "virus">>
    /\ run = 1
    /\ error = NoError
    /\ completed = [r \in Runs |-> {}]
    /\ raised = [r \in Runs |-> {}]
    /\ results_csv = [r \in Runs |-> NotWritten]

\* census_df = get_census_data(); the key file, the API call (and the name
\* Census, which no cell of the notebook imports) are the environment's: the
\* call may fail
CensusCell ==
    /\ At("census")
    /\ \E ok \in BOOLEAN :
         LET exc == IF ~ok THEN "LoadError"
                    ELSE IF LookupRaises(census_api) THEN "AttributeError"
                    ELSE NoError
         IN  /\ census_df' = IF exc = NoError
                             THEN Frame(get_census_data(census_api)) ELSE census_df
             /\ EndCell("census", exc)
    /\ UNCHANGED <<virus_df, firstcase, data, results_csv>>

\* virus_df = get_virus_data(); the download and the csv read may fail
VirusCell ==
    /\ At("virus")
    /\ \E ok \in BOOLEAN :
         LET exc == IF ~ok THEN "LoadError" ELSE NoError
         IN  /\ virus_df' = IF exc = NoError
                            THEN Frame(get_virus_data(kaggle_csv)) ELSE virus_df
             /\ EndCell("virus", exc)
    /\ UNCHANGED <<census_df, firstcase, data, results_csv>>

\* firstcase = sqldf(sql, globals())
FirstCaseCell ==
    /\ At("firstcase")
    /\ LET exc == IF virus_df.defined THEN NoError ELSE "PandaSQLException"
       IN  /\ firstcase' = IF exc = NoError
                           THEN Frame(FirstCaseQuery(virus_df.rows)) ELSE firstcase
           /\ EndCell("firstcase", exc)
    /\ UNCHANGED <<census_df, virus_df, data, results_csv>>

\* data = sqldf(sql, globals())
JoinCell ==
    /\ At("join")
    /\ LET exc == IF virus_df.defined /\ census_df.defined /\ firstcase.defined
                  THEN NoError ELSE "PandaSQLException"
       IN  /\ data' = IF exc = NoError
                      THEN Frame(JoinQuery(virus_df.rows, census_df.rows, firstcase.rows))
                      ELSE data
           /\ EndCell("join", exc)
    /\ UNCHANGED <<census_df, virus_df, firstcase, results_csv>>

\* data['obs_dt'] = pd.to_datetime(...); data['first_obs_dt'] = pd.to_datetime(...)
ToDatetimeCell ==
    /\ At("to_datetime")
    /\ LET exc == IF data.defined THEN NoError ELSE "NameError"
       IN  /\ data' = IF exc = NoError
                      THEN Frame(ParseDatesAll(data.rows)) ELSE data
           /\ EndCell("to_datetime", exc)
    /\ UNCHANGED <<census_df, virus_df, firstcase, results_csv>>

\* the four assignments of the elapsed-time cell, in order; the second one
\* raises when a row has no first_obs_dt, after the first one took effect
ElapsedCell ==
    /\ At("elapsed")
    /\ LET rows1 == TimeElapsedAll(data.rows)
           exc == IF ~data.defined THEN "NameError"
                  ELSE IF AstypeIntRaises(rows1) THEN "ValueError"
                  ELSE NoError
       IN  /\ data' = IF exc = NoError THEN Frame(ElapsedAndRatesAll(rows1))
                      ELSE IF exc = "ValueError" THEN Frame(rows1)
                      ELSE data
           /\ EndCell("elapsed", exc)
    /\ UNCHANGED <<census_df, virus_df, firstcase, results_csv>>

\* adj_multiplier, adj_pos_per100k, adj_death_per100k
AdjustCell ==
    /\ At("adjust")
    /\ LET exc == IF ~data.defined THEN "NameError"
                  ELSE IF ~HasColumn(data.rows, "days_elapsed_since_firstpos")
                  THEN "AttributeError"
                  ELSE NoError
       IN  /\ data' = IF exc = NoError
                      THEN Frame(AdjustedAll(data.rows)) ELSE data
           /\ EndCell("adjust", exc)
    /\ UNCHANGED <<census_df, virus_df, firstcase, results_csv>>

\* data.to_csv('data/results.csv')
ToCsvCell ==
    /\ At("to_csv")
    /\ LET exc == IF data.defined THEN NoError ELSE "NameError"
       IN  /\ results_csv' = IF exc = NoError
                             THEN [results_csv EXCEPT
                                     ![run] = [written |-> TRUE, rows |-> data.rows]]
                             ELSE results_csv
           /\ EndCell("to_csv", exc)
    /\ UNCHANGED <<census_df, virus_df, firstcase, data>>

ReorderRows(q) == {[i \in 1..Len(q) |-> q[f[i]]] : f \in Permutations(1..Len(q))}

\* the notebook is run again in the same kernel, on the same two datasets
\* (the csv's rows in any order): the kernel's globals are still there
RunAgain ==
    /\ Finished
    /\ run + 1 \in Runs
    /\ run' = run + 1
    /\ pc' = 1
    /\ error' = NoError
    /\ kaggle_csv' \in ReorderRows(kaggle_csv)
    /\ loaders' \in LoaderOrders
    /\ UNCHANGED <<census_api, census_df, virus_df, firstcase, data,
                   completed, raised, results_csv>>

Next ==
    \/ CensusCell
    \/ VirusCell
    \/ FirstCaseCell
    \/ JoinCell
    \/ ToDatetimeCell
    \/ ElapsedCell
    \/ AdjustCell
    \/ ToCsvCell
    \/ RunAgain

Spec == Init /\ [][Next]_vars

----------------------------------------------------------------------------
(* Vocabulary of the properties *)

LoaderCells == {"census", "virus"}

RunFinished(r) == r < run \/ (r = run /\ Finished)

LoadersOk(r) == raised[r] \cap LoaderCells = {}

\* the rows the result sink wrote in run r
Output(r) == results_csv[r].rows

OutputRows(r) == {Output(r)[k] : k \in 1..Len(Output(r))}

CsvIdx == 1..Len(kaggle_csv)

CsvOf(s) == {i \in CsvIdx : kaggle_csv[i].state = s}

\* the records of state s whose positive value is reported
Qualifying(s) == {i \in CsvOf(s) : kaggle_csv[i].positive # Null}

DemographicStates == {c.state_cd : c \in census_df.rows}

BagOfSeq(q) ==
    [x \in {q[k] : k \in 1..Len(q)} |-> Cardinality({k \in 1..Len(q) : q[k] = x})]

ZeroIfNull(x) == IF x = Null THEN 0 ELSE x[1]

----------------------------------------------------------------------------
(* C1 *)

----------------------------------------------------------------------------
(* C2 *)

\* C2: no row of the joined table, and no row written, has a state that is
\* absent from the demographic table's state_cd.
C2_InnerJoin ==
    /\ data.defined =>
         \A k \in 1..Len(data.rows) : data.rows[k].state \in DemographicStates
    /\ \A r \in Runs : \A row \in OutputRows(r) : row.state \in DemographicStates

\* rows were written although the case data holds a record of a state the
\* demographic table does not have
C2_Witness ==
    \E r \in Runs :
        /\ results_csv[r].written
        /\ Output(r) # <<>>
        /\ \E i \in CsvIdx : kaggle_csv[i].state \notin DemographicStates

----------------------------------------------------------------------------
(* C3 *)

\* the states in the demographic table that have case records, none of them
\* with a reported positive value
MissingBaselineStates ==
    {s \in DemographicStates : CsvOf(s) # {} /\ Qualifying(s) = {}}

\* C3: for a state with demographics and case records but no first
\* observation, the run ends without error and writes one row per case
\* record of the state, with null first_obs_dt, null elapsed days, null
\* multiplier and null adjusted rates.
C3_MissingBaselineNulls ==
    \A r \in Runs :
        (RunFinished(r) /\ LoadersOk(r)) =>
            \A s \in MissingBaselineStates :
                /\ raised[r] = {}
                /\ results_csv[r].written
                /\ Cardinality({k \in 1..Len(Output(r)) : Output(r)[k].state = s})
                     = Cardinality(CsvOf(s))
                /\ \A row \in OutputRows(r) :
                     row.state = s =>
                        /\ IsNull(row.first_obs_dt)
                        /\ IsNull(row.time_elapsed_since_firstpos)
                        /\ IsNaN(row.adj_multiplier)
                        /\ IsNaN(row.adj_pos_per100k)
                        /\ IsNaN(row.adj_death_per100k)

----------------------------------------------------------------------------
(* C4 *)

\* C4: in every written row, elapsed days are >= 0, the multiplier is in
\* [0, 1), and the multiplier is 0 exactly when the elapsed days are 0.
C4_ElapsedAndMultiplierRange ==
    \A r \in Runs : \A row \in OutputRows(r) :
        /\ 0 <= row.days_elapsed_since_firstpos
        /\ ~FLess(row.adj_multiplier, IntF(0))
        /\ FLess(row.adj_multiplier, IntF(1))
        /\ (row.adj_multiplier = IntF(0)) <=> (row.days_elapsed_since_firstpos = 0)

----------------------------------------------------------------------------
(* C5 *)

\* C5: no written row of a state whose population is 0 (or negative) carries
\* an infinite, NaN, negative or zero pos_per100k or death_per100k.
C5_InvalidPopulation ==
    \A r \in Runs : \A row \in OutputRows(r) :
        row.population <= 0 =>
            /\ IsFinite(row.pos_per100k) /\ row.pos_per100k.n > 0
            /\ IsFinite(row.death_per100k) /\ row.death_per100k.n > 0

----------------------------------------------------------------------------
(* C6 *)

KnownAbbrs == {st.abbr : st \in UsStates}

\* C6: when a case record's postal code is in no row of the reference table,
\* or a demographic row's code resolves to no state, the run raises an error
\* and writes no row for that code.
C6_UnknownState ==
    \A r \in Runs :
        (/\ RunFinished(r)
         /\ \/ \E i \in CsvIdx : kaggle_csv[i].state \notin KnownAbbrs
            \/ \E a \in census_api : Lookup(a.state) = Null)
        => /\ raised[r] # {}
           /\ \A row \in OutputRows(r) : row.state \in KnownAbbrs

----------------------------------------------------------------------------
(* C7 *)

\* C7: in every written row the adjusted rates are the rates times the
\* multiplier, the multiplier is days / (1 + days), an adjusted rate is null
\* exactly when the multiplier is null, and the multiplier is null exactly
\* when the elapsed days are null.
C7_AdjustedRate ==
    \A r \in Runs : \A row \in OutputRows(r) :
        LET dd == row.days_elapsed_since_firstpos
        IN  /\ row.adj_multiplier = FDiv(IntF(dd), IntF(1 + dd))
            /\ row.adj_pos_per100k = FMul(row.pos_per100k, row.adj_multiplier)
            /\ row.adj_death_per100k = FMul(row.death_per100k, row.adj_multiplier)
            /\ IsNaN(row.adj_pos_per100k) <=> IsNaN(row.adj_multiplier)
            /\ IsNaN(row.adj_death_per100k) <=> IsNaN(row.adj_multiplier)
            /\ IsNaN(row.adj_multiplier) <=> IsNull(row.time_elapsed_since_firstpos)

----------------------------------------------------------------------------
(* C8 *)

\* C8: a run in which a loader raised stops there: no later cell runs and
\* the result table is not written; and the table is written only in a run
\* in which no cell raised and both loads, the first-observation query, the
\* join and the derivations have all run to their end.
C8_AbortOnFailedLoad ==
    \A r \in Runs :
        /\ ~LoadersOk(r) =>
              /\ ~results_csv[r].written
              /\ completed[r] \subseteq LoaderCells
        /\ results_csv[r].written =>
              /\ raised[r] = {}
              /\ {"census", "virus", "firstcase", "join",
                  "to_datetime", "elapsed", "adjust"} \subseteq completed[r]

\* after a run that wrote its table, the census loader fails in the rerun,
\* with the first run's tables still in the kernel
C8_Witness ==
    /\ run = 2
    /\ results_csv[1].written
    /\ Output(1) # <<>>
    /\ "census" \in raised[2]
    /\ "virus" \in completed[2]
    /\ data.defined
    /\ Finished

----------------------------------------------------------------------------
(* C9 *)

\* C9: a run and a rerun on the same two datasets, in which no loader
\* failed, write the same multiset of rows (or both write nothing), whatever
\* the order of the csv rows and of the two loader cells.
C9_Deterministic ==
    (/\ RunFinished(1) /\ RunFinished(2)
     /\ LoadersOk(1) /\ LoadersOk(2))
    => /\ results_csv[1].written = results_csv[2].written
       /\ raised[1] = raised[2]
       /\ BagOfSeq(Output(1)) = BagOfSeq(Output(2))

\* both runs wrote two rows or more, in different orders, the rerun with
\* the loader cells swapped
C9_Witness ==
    /\ RunFinished(2)
    /\ results_csv[1].written /\ results_csv[2].written
    /\ Len(Output(1)) >= 2
    /\ Output(1) # Output(2)
    /\ loaders = <<"virus", "census">>

----------------------------------------------------------------------------
(* C10 *)

\* C10: in every written row the six counts are non-null and are the input
\* record's counts with an unreported one as 0, and for a population > 0
\* pos_per100k = 100000 * positive / population and death_per100k =
\* 100000 * death / population (population 500000, positive 10: 2.0).
C10_ZeroCoalescedRates ==
    \A r \in Runs : \A row \in OutputRows(r) :
        /\ \A col \in {"positive", "negative", "pending",
                       "hospitalized", "death", "total"} : row[col] # Null
        /\ \E i \in CsvIdx :
             /\ kaggle_csv[i].state = row.state
             /\ ToDatetime(kaggle_csv[i].date) = row.obs_dt
             /\ \A col \in {"positive", "negative", "pending",
                            "hospitalized", "death", "total"} :
                  row[col] = <<ZeroIfNull(kaggle_csv[i][col])>>
             /\ row.population > 0 =>
                  /\ row.pos_per100k.d > 0
                  /\ row.pos_per100k.n * row.population
                       = 100000 * ZeroIfNull(kaggle_csv[i].positive) * row.pos_per100k.d
                  /\ row.death_per100k.d > 0
                  /\ row.death_per100k.n * row.population
                       = 100000 * ZeroIfNull(kaggle_csv[i].death) * row.death_per100k.d
        /\ (row.population = 500000 /\ row.positive = <<10>>)
              => row.pos_per100k = [n |-> 2, d |-> 1]

\* a written row of an unreported positive count has count 0 and rate 0,
\* beside a row with positive 10 and rate 2.0
C10_Witness ==
    \E r \in Runs : \E k1, k2 \in 1..Len(Output(r)) : \E i \in CsvIdx :
        /\ kaggle_csv[i].positive = Null
        /\ kaggle_csv[i].state = Output(r)[k1].state
        /\ ToDatetime(kaggle_csv[i].date) = Output(r)[k1].obs_dt
        /\ Output(r)[k1].positive = <<0>>
        /\ Output(r)[k1].pos_per100k = [n |-> 0, d |-> 1]
        /\ Output(r)[k1].population = 500000
        /\ Output(r)[k2].positive = <<10>>
        /\ Output(r)[k2].pos_per100k = [n |-> 2, d |-> 1]

====
